---- MODULE Spec2Model ----
(***************************************************************************)
(* A model of utils/webrequest.py (WebRequester, status_code_to_exception) *)
(* and of templates/template_api_client.py (Client).                       *)
(*                                                                         *)
(* Every method is one action: the program is single-threaded and every    *)
(* call blocks until the transport returns.  What the requests library is  *)
(* handed is recorded per call: the arguments of requests.request, or the  *)
(* arguments of Session.request merged with the session's own settings     *)
(* (Session.headers, Session.auth, Session.verify), which is the merge the *)
(* library performs in Session.prepare_request / merge_environment_settings*)
(* Headers the library adds by itself (User-Agent, ...) are not modelled.  *)
(***************************************************************************)
EXTENDS Integers, Sequences, FiniteSets, TLC

VARIABLES
    requester,      \* the WebRequester object: its fields, the session included
    client,         \* the Client object that owns the requester
    given_base_url, \* the base_url argument the requester was constructed with
    authorization,  \* the arguments of the last set_authorization that returned
    issued,         \* the tokens stored by the last (at most two) successful
                    \* authenticate or refresh calls, oldest first
    call            \* the last call: its arguments, what the transport was
                    \* handed and answered, and how the call ended

vars == <<requester, client, given_base_url, authorization, issued, call>>

-----------------------------------------------------------------------------
(* Python values *)

\* Python's None, where the other values of the field are strings.
None == "None"

\* An optional structured value: <<>> is None, <<v>> is v.
Nothing == <<>>

Some(v) == <<v>>

\* The empty dict {}.
EmptyDict == <<>>

\* A dict.update that keeps the value of a key d already has.
update_keep_existing(d, e) == d @@ e

\* dict.update: the keys of e are added to d or overwrite those of d.
update(d, e) == e @@ d

\* The stored headers after invoke, had request_headers been the stored dict
\* itself and not a copy of it: the update of line 190 would land in it.
copy_shares_object(stored, merged) ==
    IF stored # Nothing /\ DOMAIN stored[1] # {} THEN <<merged>> ELSE stored

\* The stored headers after invoke (line 188): request_headers is a copy, a
\* new object, so updating it leaves the stored dict as it is.
stored_after_copy(stored, merged) == stored

\* Truth value of an optional dict: None and {} are false.
TruthyDict(od) == od # Nothing /\ DOMAIN od[1] # {}

\* Truth value of an optional string: None and "" are false.
TruthyStr(s) == s # None /\ s # ""

-----------------------------------------------------------------------------
(* Strings as sequences of characters, for the URL arithmetic *)

HTTP == <<"h", "t", "t", "p", ":", "/", "/">>

HTTPS == <<"h", "t", "t", "p", "s", ":", "/", "/">>

\* str.startswith
startswith(s, p) == Len(s) >= Len(p) /\ SubSeq(s, 1, Len(p)) = p

\* re.search(r"^http(s)?://", s)
HasScheme(s) == startswith(s, HTTP) \/ startswith(s, HTTPS)

\* Lines 63-69 without the removal of the trailing "/".
base_url_keep_slash(base_url) ==
    IF HasScheme(base_url) THEN base_url ELSE HTTPS \o base_url

\* WebRequester.__init__, lines 63-69: one trailing "/" is dropped, then the
\* scheme is added when there is none.
normalise_base_url(base_url) ==
    LET stripped == IF base_url[Len(base_url)] = "/"
                    THEN SubSeq(base_url, 1, Len(base_url) - 1)
                    ELSE base_url
    IN  IF HasScheme(stripped) THEN stripped ELSE HTTPS \o stripped

\* WebRequester.invoke, lines 183-186.
build_url(base, endpoint) ==
    IF startswith(endpoint, <<"/">>)
    THEN base \o endpoint
    ELSE base \o <<"/">> \o endpoint

-----------------------------------------------------------------------------
(* Exceptions *)

\* An exception: its class and, for a WebRequestResponseException, the
\* status_code it carries.
Exc(variant, status) == [variant |-> variant, status_code |-> status]

NoError == Exc("none", Nothing)

\* requests.exceptions.RequestException raised by the transport.
TransportError == Exc("RequestException", Nothing)

AttributeError == Exc("AttributeError", Nothing)

MappedCodes == {400, 401, 403, 404, 405, 406, 408, 409, 415, 416, 500, 503}

\* status_code_to_exception with the class of 415 raised for 416 as well.
status_code_to_exception_slip(status_code) ==
    CASE status_code = 400 -> "BadRequestException"
      [] status_code = 401 -> "UnauthorizedException"
      [] status_code = 403 -> "AccessForbiddenException"
      [] status_code = 404 -> "NotFoundException"
      [] status_code = 405 -> "MethodNotAllowedException"
      [] status_code = 406 -> "NotAcceptableException"
      [] status_code = 408 -> "RequestTimeoutException"
      [] status_code = 409 -> "ConflictException"
      [] status_code = 415 -> "UnsupportedMediaTypeException"
      [] status_code = 416 -> "UnsupportedMediaTypeException"
      [] status_code = 500 -> "InternalServerException"
      [] status_code = 503 -> "ServiceUnavailableException"
      [] OTHER -> "WebRequestResponseException"

\* status_code_to_exception: the class raised for a status code.
status_code_to_exception(status_code) ==
    CASE status_code = 400 -> "BadRequestException"
      [] status_code = 401 -> "UnauthorizedException"
      [] status_code = 403 -> "AccessForbiddenException"
      [] status_code = 404 -> "NotFoundException"
      [] status_code = 405 -> "MethodNotAllowedException"
      [] status_code = 406 -> "NotAcceptableException"
      [] status_code = 408 -> "RequestTimeoutException"
      [] status_code = 409 -> "ConflictException"
      [] status_code = 415 -> "UnsupportedMediaTypeException"
      [] status_code = 416 -> "InvalidContentLengthException"
      [] status_code = 500 -> "InternalServerException"
      [] status_code = 503 -> "ServiceUnavailableException"
      [] OTHER -> "WebRequestResponseException"

\* WebRequestResponseException.__init__: the exception keeps the status code
\* it was built with.
ResponseException(status_code) ==
    Exc(status_code_to_exception(status_code), Some(status_code))

-----------------------------------------------------------------------------
(* Responses of the server, as the transport returns them *)

\* A record of a resource: its "key" and "name" members, each Nothing when
\* the record has no such member, and its "val" member.
Item(key, name, val) == [key |-> key, name |-> name, val |-> val]

\* A value a call returns: a decoded JSON document, a text, raw bytes, "",
\* or the dict get_resource builds of a list.
Value(type, token, text, items, mapping) ==
    [type |-> type, token |-> token, text |-> text, items |-> items,
     mapping |-> mapping]

\* A decoded JSON object; token is its "token" member, when it has one, and
\* it has no other member.
DictValue(token) == Value("dict", token, "", <<>>, EmptyDict)

\* A decoded JSON array of records.
ListValue(items) == Value("list", Nothing, "", items, EmptyDict)

\* response.text
StrValue(text) == Value("str", Nothing, text, <<>>, EmptyDict)

\* response.content
BytesValue(text) == Value("bytes", Nothing, text, <<>>, EmptyDict)

\* The dict of lines 145-146.
MappingValue(mapping) == Value("mapping", Nothing, "", <<>>, mapping)

\* A response: json is the decoding of the body, Nothing when response.json()
\* raises.
Response(status_code, text, json) ==
    [kind |-> "response", status_code |-> status_code, text |-> text, json |-> json]

\* No response: the transport raised a RequestException.
NoResponse == [kind |-> "transport", status_code |-> 0, text |-> "", json |-> Nothing]

\* requests.Response.ok: raise_for_status raises for 400 <= status < 600.
ok(response) == ~(400 <= response.status_code /\ response.status_code < 600)

-----------------------------------------------------------------------------
(* Logger *)

\* Logger.__init__: the flags.  The handler (a file or none) is where the
\* entries go and is not modelled.
Logger(log_print, log_requests, log_headers, log_bodies) ==
    [_log_print |-> log_print, _log_requests |-> log_requests,
     _log_headers |-> log_headers, _log_bodies |-> log_bodies]

\* Logger._log: one entry of the log; printed says it was printed as well.
LogEntry(l, line, method, url, headers, body, status_code, text) ==
    [line |-> line, method |-> method, url |-> url, headers |-> headers,
     body |-> body, status_code |-> status_code, text |-> text,
     printed |-> l._log_print]

\* Logger.log_request without the test of _log_headers at line 338.
log_request_headers_ungated(l, url, method, headers, body) ==
    IF ~l._log_requests THEN <<>>
    ELSE <<LogEntry(l, "Invoking", method, url, EmptyDict, Nothing, 0, ""),
           LogEntry(l, "Request headers", "", <<>>, headers, Nothing, 0, "")>>
         \o (IF l._log_bodies /\ body # Nothing
             THEN <<LogEntry(l, "Request body", "", <<>>, EmptyDict, body, 0, "")>>
             ELSE <<>>)

\* Logger.log_request: the entries it emits.
log_request(l, url, method, headers, body) ==
    IF ~l._log_requests THEN <<>>
    ELSE <<LogEntry(l, "Invoking", method, url, EmptyDict, Nothing, 0, "")>>
         \o (IF l._log_headers
             THEN <<LogEntry(l, "Request headers", "", <<>>, headers, Nothing, 0, "")>>
             ELSE <<>>)
         \o (IF l._log_bodies /\ body # Nothing
             THEN <<LogEntry(l, "Request body", "", <<>>, EmptyDict, body, 0, "")>>
             ELSE <<>>)

\* Logger.log_response: the entries it emits.  The headers of a response are
\* not modelled: their entry is logged with none.
log_response(l, response) ==
    IF ~l._log_requests THEN <<>>
    ELSE <<LogEntry(l, "Response status code", "", <<>>, EmptyDict, Nothing,
                    response.status_code, "")>>
         \o (IF l._log_headers
             THEN <<LogEntry(l, "Response headers", "", <<>>, EmptyDict, Nothing, 0, "")>>
             ELSE <<>>)
         \o (IF l._log_bodies /\ response.text # ""
             THEN <<LogEntry(l, "Response body", "", <<>>, EmptyDict, Nothing, 0,
                             response.text)>>
             ELSE <<>>)

-----------------------------------------------------------------------------
(* WebRequester *)

NoAuth == [kind |-> "None", username |-> None, password |-> None]

HTTPBasicAuth(username, password) ==
    [kind |-> "HTTPBasicAuth", username |-> username, password |-> password]

HTTPDigestAuth(username, password) ==
    [kind |-> "HTTPDigestAuth", username |-> username, password |-> password]

\* requests.Session() with session.verify set (lines 80-81).  own_headers is
\* the session's header dict while it is not the requester's _headers object;
\* shares_headers says session.headers is that very object (line 109).
Session(verify) ==
    [verify |-> verify, auth |-> NoAuth, own_headers |-> EmptyDict,
     shares_headers |-> FALSE]

\* WebRequester.__init__.  _fqdn, which nothing reads, and disable_warnings,
\* a switch of the library, are left out.
WebRequester(base_url, use_session, verify_ssl_certs, logger) ==
    [_base_url |-> normalise_base_url(base_url),
     _username |-> None,
     _password |-> None,
     _auth |-> NoAuth,
     _token |-> None,
     _token_header |-> None,
     _headers |-> Nothing,
     _use_session |-> use_session,
     _verify_ssl_certs |-> verify_ssl_certs,
     _session |-> IF use_session THEN Some(Session(verify_ssl_certs)) ELSE Nothing,
     _logger |-> logger]

\* self._session.headers, had line 109 given the session a dict of its own.
session_headers_unshared(w) == w._session[1].own_headers

\* self._session.headers
session_headers(w) ==
    IF w._session[1].shares_headers THEN w._headers[1] ELSE w._session[1].own_headers

\* The outcome of a method of the requester that sends nothing: the object
\* afterwards and the exception raised, NoError when it returns.
Outcome(w, raised) == [requester |-> w, raised |-> raised]

\* WebRequester.set_default_headers
set_default_headers(w, headers) ==
    LET w1 == [w EXCEPT !._headers = Some(headers)]
    IN  IF ~w1._use_session THEN Outcome(w1, NoError)
        ELSE IF w1._session = Nothing THEN Outcome(w1, AttributeError)
        ELSE Outcome([w1 EXCEPT !._session = Some([w1._session[1] EXCEPT
                                     !.own_headers = EmptyDict,
                                     !.shares_headers = TRUE])],
                     NoError)

\* str.lower on the auth_type argument
lower(auth_type) ==
    CASE auth_type \in {"Basic", "basic"} -> "basic"
      [] auth_type \in {"Digest", "digest"} -> "digest"
      [] auth_type \in {"Token", "token", "TOKEN"} -> "token"
      [] OTHER -> auth_type

\* self._session.headers.update({...}), line 145: the dict updated is
\* self._headers itself when the session shares it.
session_headers_update(w, e) ==
    IF w._session[1].shares_headers
    THEN [w EXCEPT !._headers = Some(update(w._headers[1], e))]
    ELSE [w EXCEPT !._session = Some([w._session[1] EXCEPT
                       !.own_headers = update(w._session[1].own_headers, e)])]

\* WebRequester.set_authorization, lines 141-145
set_authorization_session(w) ==
    IF ~w._use_session THEN Outcome(w, NoError)
    ELSE IF w._auth # NoAuth
         THEN IF w._session = Nothing THEN Outcome(w, AttributeError)
              ELSE Outcome([w EXCEPT !._session =
                               Some([w._session[1] EXCEPT !.auth = w._auth])],
                           NoError)
    ELSE IF TruthyStr(w._token)
         THEN IF w._session = Nothing THEN Outcome(w, AttributeError)
              ELSE Outcome(session_headers_update(w, w._token_header :> w._token),
                           NoError)
    ELSE Outcome(w, NoError)

\* WebRequester.set_authorization
set_authorization(w, auth_type, username, password, token, token_header) ==
    LET w1 == [w EXCEPT !._username = username,
                        !._password = password,
                        !._token = token,
                        !._token_header = token_header]
    IN  CASE lower(auth_type) = "basic" ->
               set_authorization_session(
                   [w1 EXCEPT !._auth = HTTPBasicAuth(username, password)])
          [] lower(auth_type) = "digest" ->
               set_authorization_session(
                   [w1 EXCEPT !._auth = HTTPDigestAuth(username, password)])
          [] lower(auth_type) = "token" ->
               IF w1._headers = Nothing
               THEN Outcome(w1, AttributeError)
               ELSE set_authorization_session(
                        [w1 EXCEPT !._headers =
                            Some(update(w1._headers[1], token_header :> token))])
          [] OTHER -> set_authorization_session(w1)

\* The arguments of a set_authorization call, as the model remembers them.
Authorization(auth_type, username, password, token, token_header) ==
    [auth_type |-> lower(auth_type), username |-> username,
     password |-> password, token |-> token, token_header |-> token_header]

\* close_session without line 151: the closed session stays in place.
close_session_keeps(w) == w

\* WebRequester.close_session
close_session(w) ==
    IF w._session # Nothing THEN [w EXCEPT !._session = Nothing] ELSE w

\* requests.request(...) called without auth= and verify=: the library's
\* defaults apply, no authentication and certificate verification on.
LibraryDefaultVerify == TRUE

\* What the transport is handed for one request.  The params and data
\* arguments are passed through as they are and are left out.
Request(method, url, headers, auth, verify, json, via) ==
    [method |-> method, url |-> url, headers |-> headers, auth |-> auth,
     verify |-> verify, json |-> json, via |-> via]

\* WebRequester.invoke, lines 188-190
request_headers(w, headers) ==
    update(IF TruthyDict(w._headers) THEN w._headers[1] ELSE EmptyDict,
           IF TruthyDict(headers) THEN headers[1] ELSE EmptyDict)

\* WebRequester.invoke, lines 197-204: Session.request merges the call's
\* headers over session.headers and applies session.auth and session.verify.
session_request(w, method, url, headers, json) ==
    Request(method, url,
            update(session_headers(w),
                   IF headers # Nothing THEN headers[1] ELSE EmptyDict),
            w._session[1].auth, w._session[1].verify, json, "session")

\* WebRequester.invoke, lines 205-212
requests_request(w, method, url, headers, json) ==
    Request(method, url, request_headers(w, headers), NoAuth,
            LibraryDefaultVerify, json, "requests")

\* WebRequester.invoke, answered by the transport with response: the
\* requester afterwards, the request handed to the transport, the log
\* entries emitted and the exception raised.
invoke(w, method, endpoint, headers, json, response) ==
    LET url == build_url(w._base_url, endpoint)
        after == [w EXCEPT !._headers =
                     stored_after_copy(w._headers, request_headers(w, headers))]
    IN  [requester |-> after,
         sent |-> IF w._session # Nothing
                  THEN session_request(w, method, url, headers, json)
                  ELSE requests_request(w, method, url, headers, json),
         log |-> log_request(w._logger, url, method,
                             request_headers(w, headers), json)
                 \o (IF response.kind = "transport" THEN <<>>
                     ELSE log_response(w._logger, response)),
         raised |-> IF response.kind = "transport" THEN TransportError ELSE NoError]

\* The value and the exception of a call: value is Nothing when it raises.
Result(value, raised) == [value |-> value, raised |-> raised]

\* What a call returns: data, or with as_tuple (status_code, headers, data).
Returned(as_tuple, status_code, data) ==
    [as_tuple |-> as_tuple, status_code |-> IF as_tuple THEN status_code ELSE 0,
     data |-> data]

\* Lines 269-283 without the test of line 271: a 204 is decoded as well.
handle_decodes_no_content(response, decode_response, as_tuple) ==
    IF response.kind = "transport" THEN Result(Nothing, TransportError)
    ELSE IF ok(response)
    THEN LET response_data ==
                 IF decode_response
                 THEN IF response.json # Nothing
                      THEN response.json[1]
                      ELSE StrValue(response.text)
                 ELSE BytesValue(response.text)
         IN  Result(Some(Returned(as_tuple, response.status_code, response_data)),
                    NoError)
    ELSE Result(Nothing, ResponseException(response.status_code))

\* Lines 269-283 without the try of lines 273-276: a body that does not
\* decode raises the error of response.json().
handle_raises_undecodable(response, decode_response, as_tuple) ==
    IF response.kind = "transport" THEN Result(Nothing, TransportError)
    ELSE IF ok(response)
    THEN IF response.status_code # 204 /\ decode_response /\ response.json = Nothing
         THEN Result(Nothing, Exc("JSONDecodeError", Nothing))
         ELSE LET response_data ==
                      IF response.status_code # 204
                      THEN IF decode_response
                           THEN response.json[1]
                           ELSE BytesValue(response.text)
                      ELSE StrValue("")
              IN  Result(Some(Returned(as_tuple, response.status_code,
                                       response_data)),
                         NoError)
    ELSE Result(Nothing, ResponseException(response.status_code))

\* WebRequester.invoke_and_handle, lines 269-283, on the response of invoke.
handle(response, decode_response, as_tuple) ==
    IF response.kind = "transport" THEN Result(Nothing, TransportError)
    ELSE IF ok(response)
    THEN LET response_data ==
                 IF response.status_code # 204
                 THEN IF decode_response
                      THEN IF response.json # Nothing
                           THEN response.json[1]
                           ELSE StrValue(response.text)
                      ELSE BytesValue(response.text)
                 ELSE StrValue("")
         IN  Result(Some(Returned(as_tuple, response.status_code, response_data)),
                    NoError)
    ELSE Result(Nothing, ResponseException(response.status_code))

\* WebRequester.invoke_and_handle
invoke_and_handle(w, method, endpoint, headers, json, response, decode, as_tuple) ==
    LET inv == invoke(w, method, endpoint, headers, json, response)
        res == handle(response, decode, as_tuple)
    IN  [requester |-> inv.requester, sent |-> inv.sent, log |-> inv.log,
         value |-> res.value, raised |-> res.raised]

-----------------------------------------------------------------------------
(* The record of a call *)

\* One request of a call: what the transport was handed and what it
\* answered; latest is the token the last successful authenticate had stored
\* when the request was sent (None before the first).
Exchange(sent, response, latest) ==
    [sent |-> sent, response |-> response, latest |-> latest]

\* The client where the requester is used directly.
NoClient ==
    [_base_url |-> <<>>, _username |-> None, _password |-> None,
     _token |-> None, _log_print |-> FALSE]

\* The boolean arguments of a call that were true.
Flags(decode_response, as_tuple, as_dict) ==
    {f \in {"decode_response", "as_tuple", "as_dict"} :
        \/ f = "decode_response" /\ decode_response
        \/ f = "as_tuple" /\ as_tuple
        \/ f = "as_dict" /\ as_dict}

\* A call: the method, its endpoint, headers and boolean arguments, the
\* client's token before it, the requests it sent, the log entries it
\* emitted, and the value it returned or the exception it raised.
Call(op, endpoint, headers, flags, pre_token, reqs, log, value, raised) ==
    [op |-> op, endpoint |-> endpoint, headers |-> headers, flags |-> flags,
     pre_token |-> pre_token, reqs |-> reqs, log |-> log, value |-> value,
     raised |-> raised]

\* A call of a method that sends nothing.
LocalCall(op, raised) == Call(op, <<>>, Nothing, {}, None, <<>>, <<>>, Nothing, raised)

LatestIssued == IF issued = <<>> THEN None ELSE issued[Len(issued)]

-----------------------------------------------------------------------------
(* WebRequester used directly: specification Spec *)

\* The base URL of Spec and SpecClient: no scheme, and a trailing "/".
SpecBaseUrls == {<<"a", "/">>}

\* The logger of the default arguments: every flag off.
DefaultLogger == Logger(FALSE, FALSE, FALSE, FALSE)

DefaultHeaderChoices ==
    {EmptyDict,
     "Accept" :> "application/json",
     ("Accept" :> "application/json") @@ ("Authorization" :> "static")}

CallHeaderChoices ==
    {Nothing, Some("Accept" :> "text/xml"), Some("X-Call" :> "1")}

\* <<auth_type, username, password, token, token_header>>, auth_type one of
\* Basic, Digest and Token as the docstring asks.
AuthorizationChoices ==
    {<<"Basic", "u", "p", None, "Authorization">>,
     <<"Digest", "u", "p", None, "Authorization">>,
     <<"Token", None, None, "secret", "Authorization">>,
     <<"TOKEN", None, None, "key", "X-Auth">>}

EndpointChoices == {<<"/", "x">>, <<"x">>}

OkBody == Some(DictValue(Nothing))

Init ==
    /\ given_base_url \in SpecBaseUrls
    /\ \E use_session \in BOOLEAN, verify_ssl_certs \in BOOLEAN :
           requester = WebRequester(given_base_url, use_session, verify_ssl_certs,
                                    DefaultLogger)
    /\ client = NoClient
    /\ authorization = Nothing
    /\ issued = <<>>
    /\ call = LocalCall("__init__", NoError)

SetDefaultHeaders ==
    \E headers \in DefaultHeaderChoices :
        LET out == set_default_headers(requester, headers)
        IN  /\ requester' = out.requester
            /\ call' = LocalCall("set_default_headers", out.raised)
            /\ UNCHANGED <<client, given_base_url, authorization, issued>>

SetAuthorization ==
    \E a \in AuthorizationChoices :
        LET out == set_authorization(requester, a[1], a[2], a[3], a[4], a[5])
        IN  /\ requester' = out.requester
            /\ authorization' = IF out.raised = NoError
                                THEN Some(Authorization(a[1], a[2], a[3], a[4], a[5]))
                                ELSE authorization
            /\ call' = LocalCall("set_authorization", out.raised)
            /\ UNCHANGED <<client, given_base_url, issued>>

CloseSession ==
    /\ requester' = close_session(requester)
    /\ call' = LocalCall("close_session", NoError)
    /\ UNCHANGED <<client, given_base_url, authorization, issued>>

InvokeWith(endpoints, responses) ==
    \E endpoint \in endpoints, headers \in CallHeaderChoices, response \in responses :
        LET out == invoke(requester, "GET", endpoint, headers, Nothing, response)
        IN  /\ requester' = out.requester
            /\ call' = Call("invoke", endpoint, headers, {}, None,
                            <<Exchange(out.sent, response, LatestIssued)>>,
                            out.log, Nothing, out.raised)
            /\ UNCHANGED <<client, given_base_url, authorization, issued>>

\* What the transport answers to invoke in Spec.
InvokeResponses == {NoResponse, Response(200, "{}", OkBody)}

Invoke == InvokeWith(EndpointChoices, InvokeResponses)

\* The status codes the server answers with in Spec.
StatusCodes == {200, 204, 401, 404, 418, 500}

HandledResponses(codes) ==
    {NoResponse}
    \cup {Response(c, "{}", OkBody) : c \in codes}
    \cup {Response(200, "text", Nothing)}

InvokeAndHandleWith(responses) ==
    \E response \in responses, decode_response \in BOOLEAN, as_tuple \in BOOLEAN :
        LET out == invoke_and_handle(requester, "GET", <<"/", "x">>, Nothing,
                                     Nothing, response, decode_response, as_tuple)
        IN  /\ requester' = out.requester
            /\ call' = Call("invoke_and_handle", <<"/", "x">>, Nothing,
                            Flags(decode_response, as_tuple, FALSE), None,
                            <<Exchange(out.sent, response, LatestIssued)>>,
                            out.log, out.value, out.raised)
            /\ UNCHANGED <<client, given_base_url, authorization, issued>>

\* What the transport answers to invoke_and_handle in Spec.
SpecResponses == HandledResponses(StatusCodes)

InvokeAndHandle == InvokeAndHandleWith(SpecResponses)

Next ==
    \/ SetDefaultHeaders
    \/ SetAuthorization
    \/ CloseSession
    \/ Invoke
    \/ InvokeAndHandle

Spec == Init /\ [][Next]_vars

-----------------------------------------------------------------------------
(* Client *)

\* Endpoints.AUTHENTICATION.value: "/api/api-token-auth/"
AUTHENTICATION ==
    <<"/", "a", "p", "i", "/", "a", "p", "i", "-", "t", "o", "k", "e", "n", "-",
      "a", "u", "t", "h", "/">>

\* Endpoints.AUTHENTICATION_REFRESH.value: "/api/api-token-refresh/"
AUTHENTICATION_REFRESH ==
    <<"/", "a", "p", "i", "/", "a", "p", "i", "-", "t", "o", "k", "e", "n", "-",
      "r", "e", "f", "r", "e", "s", "h", "/">>

\* Endpoints.RESOURCE.value: "/api/resource/"
RESOURCE ==
    <<"/", "a", "p", "i", "/", "r", "e", "s", "o", "u", "r", "c", "e", "/">>

\* The headers Client.__init__ sets as defaults (lines 74-78).
ClientDefaultHeaders ==
    ("Accept" :> "application/json")
    @@ ("Content-Type" :> "application/json")
    @@ ("Cache-Control" :> "no-cache")

\* The JSON body of a POST: keys are the members it has.
JsonBody(keys, username, password, token) ==
    [keys |-> keys, username |-> username, password |-> password, token |-> token]

\* "Bearer " + token
Bearer(token) == "Bearer " \o token

\* Exception(...) raised at line 103: the response holds no token.
MissingToken == Exc("Exception", Nothing)

\* Indexing a str with a str: _output["token"], _item["name"].
TypeError == Exc("TypeError", Nothing)

\* _item["name"] on a record with neither "key" nor "name".
KeyError == Exc("KeyError", Nothing)

\* The texts a body can be that hold the substring "token".
TextsWithToken == {"token expired"}

\* "token" in _output (line 102)
token_in(output) ==
    CASE output.type = "dict" -> output.token # Nothing
      [] output.type = "str" -> output.text \in TextsWithToken
      [] OTHER -> FALSE

\* Client.__init__
Client(url, username, password, use_session, verify_ssl_certs, logger) ==
    [client |-> [_base_url |-> url, _username |-> username,
                 _password |-> password, _token |-> None,
                 _log_print |-> logger._log_print],
     requester |-> set_default_headers(
                       WebRequester(url, use_session, verify_ssl_certs, logger),
                       ClientDefaultHeaders).requester]

\* The outcome of a method of the client: both objects afterwards, the
\* requests sent, the log entries emitted, the token stored (Nothing when
\* none was), the set_authorization that returned (Nothing when none did),
\* the value returned and the exception raised.
ClientOutcome(c, w, reqs, log, stored, authorized, value, raised) ==
    [client |-> c, requester |-> w, reqs |-> reqs, log |-> log,
     stored |-> stored, authorized |-> authorized, value |-> value,
     raised |-> raised]

\* __get_or_refresh_token, had it stored _output.get("token") before line 102.
get_or_refresh_token_unsets(c, w, endpoint, response, latest) ==
    LET json_body == IF endpoint = AUTHENTICATION
                     THEN JsonBody({"username", "password"},
                                   c._username, c._password, None)
                     ELSE JsonBody({"token"}, None, None, c._token)
        out == invoke_and_handle(w, "POST", endpoint, Nothing, Some(json_body),
                                 response, TRUE, FALSE)
        reqs == <<Exchange(out.sent, response, latest)>>
        Raise(ex) == ClientOutcome([c EXCEPT !._token = None], out.requester, reqs, out.log, Nothing,
                                   Nothing, Nothing, ex)
    IN  IF out.raised # NoError THEN Raise(out.raised)
        ELSE IF ~token_in(out.value[1].data) THEN Raise(MissingToken)
        ELSE IF out.value[1].data.type # "dict" THEN Raise(TypeError)
        ELSE LET token == out.value[1].data.token[1]
                 c1 == [c EXCEPT !._token = token]
                 auth == set_authorization(out.requester, "Token", c._username,
                                           c._password, Bearer(token),
                                           "Authorization")
             IN  ClientOutcome(c1, auth.requester, reqs, out.log, Some(token),
                               IF auth.raised = NoError
                               THEN Some(Authorization("Token", c._username,
                                                       c._password, Bearer(token),
                                                       "Authorization"))
                               ELSE Nothing,
                               IF auth.raised = NoError
                               THEN Some(Returned(FALSE, 0, StrValue(token)))
                               ELSE Nothing,
                               auth.raised)

\* Client.__get_or_refresh_token; latest is the token last stored before it.
get_or_refresh_token(c, w, endpoint, response, latest) ==
    LET json_body == IF endpoint = AUTHENTICATION
                     THEN JsonBody({"username", "password"},
                                   c._username, c._password, None)
                     ELSE JsonBody({"token"}, None, None, c._token)
        out == invoke_and_handle(w, "POST", endpoint, Nothing, Some(json_body),
                                 response, TRUE, FALSE)
        reqs == <<Exchange(out.sent, response, latest)>>
        Raise(ex) == ClientOutcome(c, out.requester, reqs, out.log, Nothing,
                                   Nothing, Nothing, ex)
    IN  IF out.raised # NoError THEN Raise(out.raised)
        ELSE IF ~token_in(out.value[1].data) THEN Raise(MissingToken)
        ELSE IF out.value[1].data.type # "dict" THEN Raise(TypeError)
        ELSE LET token == out.value[1].data.token[1]
                 c1 == [c EXCEPT !._token = token]
                 auth == set_authorization(out.requester, "Token", c._username,
                                           c._password, Bearer(token),
                                           "Authorization")
             IN  ClientOutcome(c1, auth.requester, reqs, out.log, Some(token),
                               IF auth.raised = NoError
                               THEN Some(Authorization("Token", c._username,
                                                       c._password, Bearer(token),
                                                       "Authorization"))
                               ELSE Nothing,
                               IF auth.raised = NoError
                               THEN Some(Returned(FALSE, 0, StrValue(token)))
                               ELSE Nothing,
                               auth.raised)

\* The handler of lines 136-143 without line 142.
except_handler_keeps_token(c, ex) ==
    [client |-> c, raised |-> ex, printed |-> c._log_print]

\* The handler of lines 136-143 without the raise of line 143.
except_handler_swallows(c, ex) ==
    [client |-> IF ex.variant = "UnauthorizedException"
                THEN [c EXCEPT !._token = None] ELSE c,
     raised |-> NoError,
     printed |-> c._log_print]

\* The handler of lines 136-143 without the test of line 141.
except_handler_clears_always(c, ex) ==
    [client |-> [c EXCEPT !._token = None],
     raised |-> ex,
     printed |-> c._log_print]

\* Client.get_resource, lines 136-143: the handler of an exception of the
\* resource request prints when _log_print is set, clears the token on an
\* UnauthorizedException and raises the exception again.
except_handler(c, ex) ==
    [client |-> IF ex.variant = "UnauthorizedException"
                THEN [c EXCEPT !._token = None] ELSE c,
     raised |-> ex,
     printed |-> c._log_print]

\* Line 145, had it looked for "name" before "key".
item_key_name_first(item) ==
    IF item.name # Nothing THEN item.name[1] ELSE item.key[1]

\* The key the record is filed under, line 145.
item_key(item) == IF item.key # Nothing THEN item.key[1] ELSE item.name[1]

\* The dict comprehension of lines 145-146 over a list of records that all
\* have a key: a later record replaces an earlier one of the same key.
RECURSIVE items_to_mapping(_)
items_to_mapping(items) ==
    IF items = <<>> THEN EmptyDict
    ELSE update(items_to_mapping(SubSeq(items, 1, Len(items) - 1)),
                item_key(items[Len(items)]) :> items[Len(items)])

\* Client.get_resource, lines 144-147: the value returned for _output.
\* Iterating a str or the keys of a dict yields strings, and indexing one
\* with "name" raises TypeError.
shape(output, as_dict) ==
    IF ~as_dict THEN Result(Some(Returned(FALSE, 0, output)), NoError)
    ELSE CASE output.type = "list" ->
                  IF \E i \in 1..Len(output.items) :
                         output.items[i].key = Nothing /\ output.items[i].name = Nothing
                  THEN Result(Nothing, KeyError)
                  ELSE Result(Some(Returned(FALSE, 0,
                                   MappingValue(items_to_mapping(output.items)))),
                              NoError)
           [] output.type = "dict" ->
                  IF output.token = Nothing
                  THEN Result(Some(Returned(FALSE, 0, MappingValue(EmptyDict))), NoError)
                  ELSE Result(Nothing, TypeError)
           [] OTHER ->
                  IF output.text = ""
                  THEN Result(Some(Returned(FALSE, 0, MappingValue(EmptyDict))), NoError)
                  ELSE Result(Nothing, TypeError)

\* Client.get_resource, lines 130-147: the resource request, after the
\* token step, which has sent the requests before and emitted log_before.
get_resource_request(c, w, resource, as_dict, response, latest, before, log_before) ==
    LET out == invoke_and_handle(w, "GET", RESOURCE \o resource, Nothing, Nothing,
                                 response, TRUE, FALSE)
        reqs == before \o <<Exchange(out.sent, response, latest)>>
    IN  IF out.raised # NoError
        THEN LET h == except_handler(c, out.raised)
             IN  ClientOutcome(h.client, out.requester, reqs,
                               log_before \o out.log
                               \o (IF h.printed
                                   THEN <<[line |-> "Failed to get resource(s)",
                                           method |-> "", url |-> <<>>,
                                           headers |-> EmptyDict, body |-> Nothing,
                                           status_code |-> 0, text |-> "",
                                           printed |-> TRUE]>>
                                   ELSE <<>>),
                               Nothing, Nothing, Nothing, h.raised)
        ELSE LET res == shape(out.value[1].data, as_dict)
             IN  ClientOutcome(c, out.requester, reqs, log_before \o out.log,
                               Nothing, Nothing, res.value, res.raised)

\* Client.get_resource
get_resource(c, w, resource, as_dict, auth_response, resource_response, latest) ==
    IF ~TruthyStr(c._token)
    THEN LET t == get_or_refresh_token(c, w, AUTHENTICATION, auth_response, latest)
         IN  IF t.raised # NoError THEN t
             ELSE LET g == get_resource_request(t.client, t.requester, resource,
                                                as_dict, resource_response,
                                                t.stored[1], t.reqs, t.log)
                  IN  [g EXCEPT !.stored = t.stored, !.authorized = t.authorized]
    ELSE get_resource_request(c, w, resource, as_dict, resource_response, latest,
                              <<>>, <<>>)

-----------------------------------------------------------------------------
(* Client: specification SpecClient *)

\* The tokens the server issues: strings that are not empty.
Tokens == {"t1", "t2"}

TokenResponses ==
    {NoResponse, Response(401, "{}", OkBody), Response(500, "{}", OkBody),
     Response(200, "{}", OkBody), Response(200, "token expired", Nothing),
     Response(204, "", Nothing)}
    \cup {Response(200, "{token}", Some(DictValue(Some(t)))) : t \in Tokens}

\* The list of the resource endpoint: a record with a "key" and one with a
\* "name" only.
ResourceList ==
    ListValue(<<Item(Some("a"), Nothing, 1), Item(Nothing, Some("b"), 2)>>)

ResourceResponses ==
    {NoResponse, Response(401, "{}", OkBody), Response(404, "{}", OkBody),
     Response(500, "{}", OkBody), Response(200, "[..]", Some(ResourceList))}

ResourceChoices == {<<>>, <<"7">>}

\* issued after a call that stored the token it was given, or stored none.
Issue(stored) ==
    IF stored = Nothing THEN issued
    ELSE IF issued = <<>> THEN stored
    ELSE <<issued[Len(issued)], stored[1]>>

InitClient ==
    /\ given_base_url \in SpecBaseUrls
    /\ \E use_session \in BOOLEAN, verify_ssl_certs \in BOOLEAN :
           LET new == Client(given_base_url, "u", "p", use_session,
                             verify_ssl_certs, DefaultLogger)
           IN  /\ client = new.client
               /\ requester = new.requester
    /\ authorization = Nothing
    /\ issued = <<>>
    /\ call = LocalCall("__init__", NoError)

\* The call of one of the client's methods, from its outcome.
ClientCall(op, endpoint, flags, out) ==
    /\ client' = out.client
    /\ requester' = out.requester
    /\ issued' = Issue(out.stored)
    /\ authorization' = IF out.authorized # Nothing
                        THEN out.authorized ELSE authorization
    /\ call' = Call(op, endpoint, Nothing, flags, client._token, out.reqs,
                    out.log, out.value, out.raised)
    /\ UNCHANGED given_base_url

GetTokenWith(responses) ==
    \E response \in responses :
        ClientCall("_get_token", AUTHENTICATION, {},
                   get_or_refresh_token(client, requester, AUTHENTICATION,
                                        response, LatestIssued))

RefreshTokenWith(responses) ==
    \E response \in responses :
        ClientCall("_refresh_token", AUTHENTICATION_REFRESH, {},
                   get_or_refresh_token(client, requester, AUTHENTICATION_REFRESH,
                                        response, LatestIssued))

GetResourceWith(resources, token_responses, resource_responses) ==
    \E resource \in resources, as_dict \in BOOLEAN,
       auth_response \in IF TruthyStr(client._token)
                         THEN {NoResponse} ELSE token_responses,
       resource_response \in resource_responses :
        ClientCall("get_resource", RESOURCE \o resource,
                   Flags(FALSE, FALSE, as_dict),
                   get_resource(client, requester, resource, as_dict,
                                auth_response, resource_response, LatestIssued))

GetToken == GetTokenWith(TokenResponses)

RefreshToken == RefreshTokenWith(TokenResponses)

GetResource == GetResourceWith(ResourceChoices, TokenResponses, ResourceResponses)

NextClient ==
    \/ GetToken
    \/ RefreshToken
    \/ GetResource

SpecClient == InitClient /\ [][NextClient]_vars

-----------------------------------------------------------------------------
(* URL building over many base URLs and endpoints: specification SpecUrl *)

MaxHostLen == 3

MaxPathLen == 2

\* All strings over chars of length at most n.
StringsUpTo(chars, n) == UNION {[1..k -> chars] : k \in 0..n}

\* Host and path of a base URL: not empty, "/" only inside.
Hosts ==
    {h \in StringsUpTo({"a", "/"}, MaxHostLen) :
        h # <<>> /\ h[1] # "/" /\ h[Len(h)] # "/"}

\* Base URLs: with either scheme or none, with or without one trailing "/".
BaseUrls ==
    {scheme \o h \o trail :
        scheme \in {<<>>, HTTP, HTTPS}, h \in Hosts, trail \in {<<>>, <<"/">>}}

\* Endpoints: a path, with or without one leading "/".
Endpoints ==
    {lead \o path :
        lead \in {<<>>, <<"/">>},
        path \in {q \in StringsUpTo({"x", "/"}, MaxPathLen) :
                     q = <<>> \/ q[1] # "/"}}

\* The loggers of SpecUrl: every flag off, and every flag on.
LoggerChoices == {DefaultLogger, Logger(TRUE, TRUE, TRUE, TRUE)}

InitUrl ==
    /\ given_base_url \in BaseUrls
    /\ \E logger \in LoggerChoices :
           requester = WebRequester(given_base_url, FALSE, TRUE, logger)
    /\ client = NoClient
    /\ authorization = Nothing
    /\ issued = <<>>
    /\ call = LocalCall("__init__", NoError)

\* What the transport answers in SpecUrl.
UrlResponses == {Response(200, "{}", OkBody)}

InvokeUrl == InvokeWith(Endpoints, UrlResponses)

NextUrl == InvokeUrl

SpecUrl == InitUrl /\ [][NextUrl]_vars

-----------------------------------------------------------------------------
(* Response classification over all status codes: specification SpecStatus *)

\* Every status code of the 4xx and 5xx ranges, their neighbours on both
\* sides, and two codes of success.
AllStatusCodes == {200, 204} \cup (390..600)

InitStatus ==
    /\ given_base_url \in SpecBaseUrls
    /\ \E use_session \in BOOLEAN :
           requester = WebRequester(given_base_url, use_session, TRUE, DefaultLogger)
    /\ client = NoClient
    /\ authorization = Nothing
    /\ issued = <<>>
    /\ call = LocalCall("__init__", NoError)

\* What the transport answers in SpecStatus.
StatusResponses == HandledResponses(AllStatusCodes)

InvokeAndHandleStatus == InvokeAndHandleWith(StatusResponses)

NextStatus == InvokeAndHandleStatus

SpecStatus == InitStatus /\ [][NextStatus]_vars

-----------------------------------------------------------------------------
(* Reshaping of resource lists: specification SpecResource *)

MaxItems == 2

\* The records of the lists: with "key" only, with "name" only, with both,
\* and with neither.
Items ==
    {Item(Some("a"), Nothing, 1), Item(Nothing, Some("a"), 2),
     Item(Some("b"), Some("a"), 3), Item(Nothing, Nothing, 4)}

\* The lists the resource endpoint answers with.
ResourceLists == {ListValue(items) : items \in StringsUpTo(Items, MaxItems)}

InitResource == InitClient

\* The answer to the authentication POST in SpecResource.
ListTokenResponses == {Response(200, "{token}", Some(DictValue(Some("t1"))))}

\* The answers to the resource GET in SpecResource.
ListResourceResponses == {Response(200, "[..]", Some(l)) : l \in ResourceLists}

GetResourceList ==
    GetResourceWith({<<>>}, ListTokenResponses, ListResourceResponses)

NextResource == GetResourceList

SpecResource == InitResource /\ [][NextResource]_vars

-----------------------------------------------------------------------------
(* Logging under every configuration: specification SpecLog *)

\* Every combination of the four flags of the logger.
AllLoggers ==
    {Logger(log_print, log_requests, log_headers, log_bodies) :
        log_print \in BOOLEAN, log_requests \in BOOLEAN,
        log_headers \in BOOLEAN, log_bodies \in BOOLEAN}

LogTokenResponses ==
    {NoResponse, Response(401, "denied", Nothing),
     Response(200, "{token}", Some(DictValue(Some("t1"))))}

LogResourceResponses ==
    {NoResponse, Response(401, "denied", Nothing), Response(204, "", Nothing),
     Response(200, "[..]", Some(ResourceList))}

InitLog ==
    /\ given_base_url \in SpecBaseUrls
    /\ \E use_session \in BOOLEAN, logger \in AllLoggers :
           LET new == Client(given_base_url, "u", "p", use_session, TRUE, logger)
           IN  /\ client = new.client
               /\ requester = new.requester
    /\ authorization = Nothing
    /\ issued = <<>>
    /\ call = LocalCall("__init__", NoError)

GetTokenLog == GetTokenWith(LogTokenResponses)

RefreshTokenLog == RefreshTokenWith(LogTokenResponses)

GetResourceLog == GetResourceWith({<<>>}, LogTokenResponses, LogResourceResponses)

NextLog ==
    \/ GetTokenLog
    \/ RefreshTokenLog
    \/ GetResourceLog

SpecLog == InitLog /\ [][NextLog]_vars

-----------------------------------------------------------------------------
(* Properties *)

\* The requests of the last call, in the order they were sent.
Reqs == call.reqs

\* The last call sent a request through the requester's invoke.
Invoked == call.op \in {"invoke", "invoke_and_handle"}

\* s without its one trailing "/", when it has one.
WithoutTrailingSlash(s) ==
    IF s # <<>> /\ s[Len(s)] = "/" THEN SubSeq(s, 1, Len(s) - 1) ELSE s

\* s without its one leading "/", when it has one.
WithoutLeadingSlash(s) ==
    IF s # <<>> /\ s[1] = "/" THEN SubSeq(s, 2, Len(s)) ELSE s

\* The base URL the requests go to: the given one without its trailing "/",
\* with https:// in front when it names no scheme.
EffectiveBase ==
    LET b == WithoutTrailingSlash(given_base_url)
    IN  IF HasScheme(b) THEN b ELSE HTTPS \o b

\* The exchange x was answered with status code c.
Answered(x, c) == x.response.kind = "response" /\ x.response.status_code = c

\* The exchange x is the authentication POST of the client.
IsAuthPost(x) ==
    /\ x.sent.method = "POST"
    /\ x.sent.url = EffectiveBase \o AUTHENTICATION
    /\ x.sent.json = Some(JsonBody({"username", "password"},
                                   client._username, client._password, None))

\* The exchange x is a resource GET of the client.
IsResourceGet(x) ==
    /\ x.sent.method = "GET"
    /\ startswith(x.sent.url, EffectiveBase \o RESOURCE)
    /\ x.sent.json = Nothing

\* The exchange x carries the header Authorization: Bearer t.
CarriesBearer(x, t) ==
    /\ "Authorization" \in DOMAIN x.sent.headers
    /\ x.sent.headers["Authorization"] = Bearer(t)

\* The response of x is a success that holds a token.
GaveToken(x) ==
    /\ x.response.kind = "response"
    /\ ok(x.response)
    /\ x.response.status_code # 204
    /\ x.response.json # Nothing
    /\ x.response.json[1].type = "dict"
    /\ x.response.json[1].token # Nothing

ResourceUnauthorized ==
    /\ call.op = "get_resource"
    /\ \E i \in 1..Len(Reqs) : Reqs[i].sent.method = "GET" /\ Answered(Reqs[i], 401)

\* C2: when the resource request of a get_resource call is answered with 401
\* the cached token is unset when the call has ended, and the next
\* get_resource call sends the authentication POST before any resource GET.
C2_ReactiveInvalidation ==
    /\ [](ResourceUnauthorized => client._token = None)
    /\ [][(ResourceUnauthorized /\ call'.op = "get_resource")
          => (/\ Len(call'.reqs) >= 1
              /\ IsAuthPost(call'.reqs[1])
              /\ \A j \in 1..Len(call'.reqs) :
                     call'.reqs[j].sent.method = "GET" => j > 1)]_vars

C2_Witness ==
    /\ call.op = "get_resource"
    /\ call.pre_token = "t1"
    /\ Len(Reqs) = 1
    /\ Answered(Reqs[1], 401)
    /\ client._token = None

\* C3: a get_resource call made with no token cached first sends the POST
\* with {username, password} to the authentication endpoint; a resource GET
\* is sent only after that POST was answered with a token, which is then the
\* cached token, and the GET carries Authorization: Bearer <that token>.
C3_AuthenticateThenGet ==
    (call.op = "get_resource" /\ ~TruthyStr(call.pre_token))
    => /\ Len(Reqs) \in {1, 2}
       /\ IsAuthPost(Reqs[1])
       /\ GaveToken(Reqs[1]) <=> Len(Reqs) = 2
       /\ Len(Reqs) = 2 =>
              LET token == Reqs[1].response.json[1].token[1]
              IN  /\ IsResourceGet(Reqs[2])
                  /\ CarriesBearer(Reqs[2], token)
                  /\ LatestIssued = token
                  /\ client._token = IF Answered(Reqs[2], 401) THEN None ELSE token

C3_Witness ==
    /\ call.op = "get_resource"
    /\ call.pre_token = None
    /\ Len(Reqs) = 2
    /\ Reqs[1].response.json = Some(DictValue(Some("t2")))
    /\ CarriesBearer(Reqs[2], "t2")
    /\ Answered(Reqs[2], 200)
    /\ client._token = "t2"

\* The exchange x failed: no response, a response of status 400 or more, or
\* an answer to a token request that holds no token.
Failed(x) ==
    \/ x.response.kind = "transport"
    \/ ~ok(x.response)
    \/ x.sent.method = "POST" /\ ~GaveToken(x)

\* The error the failure of x is.
IsErrorOf(e, x) ==
    IF x.response.kind = "transport" THEN e = TransportError
    ELSE IF ~ok(x.response)
    THEN e.variant \notin {"none", "Exception", "TypeError", "RequestException"}
         /\ e.status_code = Some(x.response.status_code)
    ELSE e \in {MissingToken, TypeError}

\* C4: one get_resource call sends at most one authentication POST and at
\* most one resource GET; a request that fails is the last one of the call,
\* and the call ends raising the error of that failure.
C4_NoRetry ==
    call.op = "get_resource"
    => /\ Cardinality({i \in 1..Len(Reqs) : Reqs[i].sent.method = "POST"}) <= 1
       /\ Cardinality({i \in 1..Len(Reqs) : Reqs[i].sent.method = "GET"}) <= 1
       /\ \A i \in 1..Len(Reqs) :
              Failed(Reqs[i]) => i = Len(Reqs) /\ IsErrorOf(call.raised, Reqs[i])
       /\ (\A i \in 1..Len(Reqs) : ~Failed(Reqs[i])) => call.raised = NoError

C4_Witness ==
    /\ call.op = "get_resource"
    /\ Len(Reqs) = 2
    /\ GaveToken(Reqs[1])
    /\ Answered(Reqs[2], 401)
    /\ call.raised = Exc("UnauthorizedException", Some(401))

\* The last call stored a token and did not invalidate it afterwards.
StoredToken ==
    /\ \E i \in 1..Len(Reqs) : Reqs[i].sent.method = "POST" /\ GaveToken(Reqs[i])
    /\ ~ResourceUnauthorized

\* C5: once two authentications have succeeded, with tokens t1 and then t2,
\* the call that stored t2 leaves t2 as the cached token, the requester's
\* Authorization header is Bearer t2, and every request sent since t2 was
\* stored carries Bearer t2, with or without a session.
C5_LastWriteWins ==
    Len(issued) = 2
    => /\ StoredToken => client._token = issued[2]
       /\ requester._headers # Nothing
       /\ "Authorization" \in DOMAIN requester._headers[1]
       /\ requester._headers[1]["Authorization"] = Bearer(issued[2])
       /\ \A i \in 1..Len(Reqs) :
              Reqs[i].latest = issued[2] => CarriesBearer(Reqs[i], issued[2])

C5_Witness ==
    /\ issued = <<"t1", "t2">>
    /\ requester._session # Nothing
    /\ call.op = "get_resource"
    /\ Len(Reqs) = 1
    /\ Reqs[1].latest = "t2"
    /\ CarriesBearer(Reqs[1], "t2")
    /\ ~CarriesBearer(Reqs[1], "t1")

\* C6: the URL invoke requests is the effective base URL, one "/", and the
\* endpoint without its leading "/": the characters on both sides of that
\* "/" are not "/".
C6_OneSlashAtJoin ==
    call.op = "invoke"
    => LET url == Reqs[1].sent.url
           n == Len(EffectiveBase)
       IN  /\ url = EffectiveBase \o <<"/">> \o WithoutLeadingSlash(call.endpoint)
           /\ url[n] # "/"
           /\ url[n + 1] = "/"
           /\ Len(url) > n + 1 => url[n + 2] # "/"

C6_Witness ==
    /\ call.op = "invoke"
    /\ given_base_url = HTTP \o <<"a", "/", "a", "/">>
    /\ call.endpoint = <<"/", "x", "/">>
    /\ Reqs[1].sent.url = HTTP \o <<"a", "/", "a", "/", "x", "/">>

\* Some request of the last call was answered with 401.
AnyUnauthorized == \E i \in 1..Len(Reqs) : Answered(Reqs[i], 401)

C8_AuthorizationApplied ==
    (Invoked /\ authorization # Nothing)
    => LET a == authorization[1]
           sent == Reqs[1].sent
       IN  CASE a.auth_type = "basic" ->
                    sent.auth = HTTPBasicAuth(a.username, a.password)
             [] a.auth_type = "digest" ->
                    sent.auth = HTTPDigestAuth(a.username, a.password)
             [] a.auth_type = "token" ->
                    /\ a.token_header \in DOMAIN sent.headers
                    /\ sent.headers[a.token_header] = a.token

\* C9: every request is sent with certificate verification as the
\* verify_ssl_certs argument of the constructor says.
C9_VerifyFollowsSetting ==
    Invoked => Reqs[1].sent.verify = requester._verify_ssl_certs

\* The default headers stored in requester w, {} when none are.
DefaultHeaders(w) == IF w._headers = Nothing THEN EmptyDict ELSE w._headers[1]

\* The headers given to the call c, {} when none were.
CallHeaders(c) == IF c.headers = Nothing THEN EmptyDict ELSE c.headers[1]

\* C10: the headers invoke sends are the stored default headers, overridden
\* key by key by the headers of the call, and the call leaves the stored
\* default headers as they were.
C10_HeaderMerge ==
    [][call'.op \in {"invoke", "invoke_and_handle"}
       => /\ requester'._headers = requester._headers
          /\ LET sent == call'.reqs[1].sent.headers
                 given == CallHeaders(call')
                 stored == DefaultHeaders(requester)
             IN  /\ DOMAIN sent = DOMAIN stored \cup DOMAIN given
                 /\ \A k \in DOMAIN sent :
                        sent[k] = IF k \in DOMAIN given THEN given[k] ELSE stored[k]]_vars

C10_Witness ==
    /\ call.op = "invoke"
    /\ call.headers = Some("Accept" :> "text/xml")
    /\ requester._session # Nothing
    /\ requester._headers =
           Some(("Accept" :> "application/json") @@ ("Authorization" :> "secret"))
    /\ Reqs[1].sent.headers =
           ("Accept" :> "text/xml") @@ ("Authorization" :> "secret")

\* The exchange x is a token POST answered with a success that holds no
\* token field.
NoTokenField(x) ==
    /\ x.sent.method = "POST"
    /\ x.response.kind = "response"
    /\ ok(x.response)
    /\ ~GaveToken(x)

\* The headers the requester attaches to a request: its default headers and,
\* with a session, the headers of the session.
AttachedHeaders(w) ==
    [stored |-> w._headers,
     session |-> IF w._session = Nothing THEN Nothing ELSE Some(session_headers(w))]

\* C11: a call whose authenticate or refresh POST is answered with a success
\* that holds no token field raises an error and returns nothing, leaves the
\* cached token as it was before the call, and leaves the headers of the
\* requester, the Authorization header among them, as they were.
C11_MissingTokenKeepsState ==
    [][(Len(call'.reqs) >= 1 /\ NoTokenField(call'.reqs[1]))
       => /\ call'.raised \in {MissingToken, TypeError}
          /\ call'.value = Nothing
          /\ Len(call'.reqs) = 1
          /\ client'._token = client._token
          /\ AttachedHeaders(requester') = AttachedHeaders(requester)]_vars

C11_Witness ==
    /\ call.op = "_refresh_token"
    /\ call.pre_token = "t1"
    /\ Reqs[1].response = Response(200, "{}", OkBody)
    /\ call.raised = MissingToken
    /\ client._token = "t1"
    /\ requester._headers[1]["Authorization"] = Bearer("t1")

\* The last call was an invoke_and_handle answered with a success.
HandledOk ==
    /\ call.op = "invoke_and_handle"
    /\ Reqs[1].response.kind = "response"
    /\ ok(Reqs[1].response)

\* C12: answered with status 204, invoke_and_handle returns "" whatever
\* decode_response is and whatever the body of the response is; with
\* as_tuple it returns the tuple of 204 and "".
C12_NoContentIsEmpty ==
    (call.op = "invoke_and_handle" /\ Answered(Reqs[1], 204))
    => /\ call.raised = NoError
       /\ call.value = Some(Returned("as_tuple" \in call.flags, 204, StrValue("")))

C12_Witness ==
    /\ call.op = "invoke_and_handle"
    /\ call.flags = {"decode_response", "as_tuple"}
    /\ Reqs[1].response = Response(204, "{}", OkBody)
    /\ call.value = Some([as_tuple |-> TRUE, status_code |-> 204,
                          data |-> StrValue("")])

\* C13: answered with a success other than 204, invoke_and_handle returns
\* the decoded JSON when decode_response is true and the body decodes, the
\* text of the body when decode_response is true and the body does not
\* decode, raising nothing, and the content as it is when decode_response is
\* false.
C13_DecodeOrFallBack ==
    (HandledOk /\ Reqs[1].response.status_code # 204)
    => LET response == Reqs[1].response
       IN  /\ call.raised = NoError
           /\ call.value # Nothing
           /\ call.value[1].data =
                  IF "decode_response" \in call.flags
                  THEN IF response.json # Nothing
                       THEN response.json[1]
                       ELSE StrValue(response.text)
                  ELSE BytesValue(response.text)

C13_Witness ==
    /\ call.op = "invoke_and_handle"
    /\ call.flags = {"decode_response"}
    /\ Reqs[1].response = Response(200, "text", Nothing)
    /\ call.raised = NoError
    /\ call.value = Some([as_tuple |-> FALSE, status_code |-> 0,
                          data |-> StrValue("text")])

\* The last call was a get_resource with as_dict whose resource GET was
\* answered with a list of records.
ReshapedList ==
    /\ call.op = "get_resource"
    /\ "as_dict" \in call.flags
    /\ Len(Reqs) >= 1
    /\ Reqs[Len(Reqs)].sent.method = "GET"
    /\ Answered(Reqs[Len(Reqs)], 200)
    /\ Reqs[Len(Reqs)].response.json # Nothing
    /\ Reqs[Len(Reqs)].response.json[1].type = "list"

\* The records of that list.
Records == Reqs[Len(Reqs)].response.json[1].items

\* The "key" member of record r when it has one, its "name" member otherwise.
KeyOrName(r) == IF r.key # Nothing THEN r.key[1] ELSE r.name[1]

\* C14 as stated: get_resource with as_dict returns a mapping with one entry
\* per record of the list, keyed by the record's "key" when it has one and
\* by its "name" otherwise, each key mapped to the whole record.
C14_OneEntryPerRecord ==
    ReshapedList
    => /\ call.raised = NoError
       /\ call.value # Nothing
       /\ call.value[1].data.type = "mapping"
       /\ LET mapping == call.value[1].data.mapping
          IN  /\ Cardinality(DOMAIN mapping) = Len(Records)
              /\ \A i \in 1..Len(Records) :
                     /\ KeyOrName(Records[i]) \in DOMAIN mapping
                     /\ mapping[KeyOrName(Records[i])] = Records[i]

\* C14 amended: when every record has a "key" or a "name", the mapping has
\* one entry per distinct key, and each key is mapped to the last record of
\* the list filed under it; when a record has neither, the call raises
\* KeyError and returns nothing.
C14_LastRecordPerKey ==
    ReshapedList
    => IF \E i \in 1..Len(Records) :
              Records[i].key = Nothing /\ Records[i].name = Nothing
       THEN call.raised = KeyError /\ call.value = Nothing
       ELSE /\ call.raised = NoError
            /\ call.value # Nothing
            /\ call.value[1].data.type = "mapping"
            /\ LET mapping == call.value[1].data.mapping
                   Last(k) == CHOOSE i \in 1..Len(Records) :
                                  /\ KeyOrName(Records[i]) = k
                                  /\ \A j \in (i + 1)..Len(Records) :
                                         KeyOrName(Records[j]) # k
               IN  /\ DOMAIN mapping =
                          {KeyOrName(Records[i]) : i \in 1..Len(Records)}
                   /\ \A k \in DOMAIN mapping : mapping[k] = Records[Last(k)]

C14_Witness ==
    /\ ReshapedList
    /\ Records = <<Item(Some("a"), Nothing, 1), Item(Nothing, Some("a"), 2)>>
    /\ call.raised = NoError
    /\ call.value[1].data.mapping = ("a" :> Item(Nothing, Some("a"), 2))

\* The entries of the log that Logger.log_request and Logger.log_response
\* emit for every request: the line of the request and the line of the status.
IsRequestLine(e) == e.line \in {"Invoking", "Response status code"}

\* The request and status lines the requests reqs give when request logging
\* is on: for each request its line and, when the transport returned a
\* response, the line of its status after it.
RECURSIVE ExpectedLines(_)
ExpectedLines(reqs) ==
    IF reqs = <<>> THEN <<>>
    ELSE LET x == reqs[1]
         IN  <<[line |-> "Invoking", method |-> x.sent.method, url |-> x.sent.url,
                status_code |-> 0]>>
             \o (IF x.response.kind = "response"
                 THEN <<[line |-> "Response status code", method |-> "",
                         url |-> <<>>, status_code |-> x.response.status_code]>>
                 ELSE <<>>)
             \o ExpectedLines(Tail(reqs))

\* The request and status lines of the log, in its order.
RequestLines(log) ==
    LET lines == SelectSeq(log, IsRequestLine)
    IN  [i \in 1..Len(lines) |->
            [line |-> lines[i].line, method |-> lines[i].method,
             url |-> lines[i].url, status_code |-> lines[i].status_code]]

\* C15: with every flag off a call emits no log entry; without log_requests
\* the logger emits none; with log_requests every request gives its line
\* before the transport is called, so also when the transport fails, and the
\* line of the status once the response is there; an entry holds headers only
\* when log_headers is set and a body only when log_bodies is set, so with
\* both off the entries hold methods, URLs and status codes only.
C15_LoggingGated ==
    LET l == requester._logger
    IN  /\ (~l._log_requests /\ ~l._log_print) => call.log = <<>>
        /\ ~l._log_requests => RequestLines(call.log) = <<>>
        /\ l._log_requests => RequestLines(call.log) = ExpectedLines(Reqs)
        /\ \A i \in 1..Len(call.log) :
               LET e == call.log[i]
               IN  /\ e.headers # EmptyDict => l._log_headers
                   /\ (e.body # Nothing \/ e.text # "") => l._log_bodies
                   /\ e.line \in {"Request headers", "Response headers"}
                          => l._log_headers
                   /\ e.line \in {"Request body", "Response body"}
                          => l._log_bodies
                   /\ e.printed = l._log_print

C15_Witness ==
    /\ requester._logger = Logger(FALSE, TRUE, FALSE, FALSE)
    /\ call.op = "get_resource"
    /\ Len(Reqs) = 2
    /\ Reqs[1].sent.json = Some(JsonBody({"username", "password"}, "u", "p", None))
    /\ CarriesBearer(Reqs[2], "t1")
    /\ Len(call.log) = 4
    /\ \A i \in 1..4 : call.log[i].headers = EmptyDict /\ call.log[i].body = Nothing
    /\ call.log[1].line = "Invoking" /\ call.log[1].method = "POST"
    /\ call.log[2].line = "Response status code" /\ call.log[2].status_code = 200
    /\ call.log[3].line = "Invoking" /\ call.log[3].method = "GET"
    /\ call.log[4].line = "Response status code"

\* C16: a session exists only in a requester constructed with use_session;
\* no call creates one where there is none; close_session leaves the
\* requester without a session and as it was otherwise, so unchanged when it
\* had none; a request goes through the session exactly when the requester
\* has one, so never after close_session.
C16_OneSessionUntilClosed ==
    /\ [](requester._session # Nothing => requester._use_session)
    /\ [][/\ requester'._session # Nothing
              => /\ requester._session # Nothing
                 /\ requester'._session[1].verify = requester._session[1].verify
          /\ call'.op = "close_session"
              => /\ call'.raised = NoError
                 /\ requester' = [requester EXCEPT !._session = Nothing]
          /\ call'.op \in {"invoke", "invoke_and_handle"}
              => /\ call'.reqs[1].sent.via = "session" <=> requester._session # Nothing
                 /\ call'.reqs[1].sent.via = "requests" <=> requester._session = Nothing
                 /\ requester'._session = requester._session]_vars

C16_Witness ==
    /\ call.op = "invoke"
    /\ requester._use_session
    /\ requester._session = Nothing
    /\ Reqs[1].sent.via = "requests"

\* C17: for a response of status 411 invoke_and_handle, through
\* status_code_to_exception, raises InvalidContentLengthException.
C17_LengthRequiredVariant ==
    (call.op = "invoke_and_handle" /\ Answered(Reqs[1], 411))
    => call.raised = Exc("InvalidContentLengthException", Some(411))

\* The headers h hold a bearer token.
HoldsBearer(h) ==
    /\ "Authorization" \in DOMAIN h
    /\ \E t \in Tokens : h["Authorization"] = Bearer(t)

\* C18: while the cached token is t the requester's Authorization header is
\* Bearer t; while it is unset the requester attaches no bearer token, and a
\* call made with the token unset sends its first request, the
\* authentication POST, without one.
C18_BearerAgreesWithToken ==
    /\ TruthyStr(client._token)
       => /\ requester._headers # Nothing
          /\ "Authorization" \in DOMAIN requester._headers[1]
          /\ requester._headers[1]["Authorization"] = Bearer(client._token)
    /\ ~TruthyStr(client._token)
       => /\ ~HoldsBearer(DefaultHeaders(requester))
          /\ requester._session # Nothing => ~HoldsBearer(session_headers(requester))
    /\ (~TruthyStr(call.pre_token) /\ Len(Reqs) >= 1)
       => ~HoldsBearer(Reqs[1].sent.headers)

\* The last call was a get_resource whose resource GET failed with anything
\* but a 401: no response, or a response of another 4xx or 5xx status.
ResourceFailedOtherwise ==
    /\ call.op = "get_resource"
    /\ \E i \in 1..Len(Reqs) :
           /\ Reqs[i].sent.method = "GET"
           /\ \/ Reqs[i].response.kind = "transport"
              \/ ~ok(Reqs[i].response) /\ ~Answered(Reqs[i], 401)

\* The token that was cached when the last call sent its resource GET: the
\* one its authentication POST was given, or the one cached before the call.
TokenAtResourceGet ==
    IF Len(Reqs) = 2 THEN Reqs[1].response.json[1].token[1] ELSE call.pre_token

\* C19: a get_resource call whose resource GET fails with anything but a 401
\* ends with the token that was cached when the GET was sent, and the next
\* get_resource call sends the resource GET only, no authentication POST.
C19_OtherFailuresKeepToken ==
    /\ [](ResourceFailedOtherwise
          => /\ client._token = TokenAtResourceGet
             /\ TruthyStr(client._token)
             /\ call.raised # NoError)
    /\ [][(ResourceFailedOtherwise /\ call'.op = "get_resource")
          => /\ Len(call'.reqs) = 1
             /\ call'.reqs[1].sent.method = "GET"
             /\ call'.pre_token = client._token]_vars

C19_Witness ==
    /\ call.op = "get_resource"
    /\ call.pre_token = "t1"
    /\ Len(Reqs) = 1
    /\ Reqs[1].sent.method = "GET"
    /\ Reqs[1].response = NoResponse
    /\ call.raised = TransportError
    /\ client._token = "t1"

\* C20: set_authorization with a token returns without an error whether or
\* not set_default_headers was called before it, and every request sent
\* after it carries the token in its header, whatever set_default_headers
\* did before or after.
C20_TokenInAnyOrder ==
    /\ (/\ call.op = "set_authorization"
        /\ TruthyStr(requester._token)
        /\ requester._use_session => requester._session # Nothing)
       => call.raised = NoError
    /\ (/\ Invoked
        /\ authorization # Nothing
        /\ authorization[1].auth_type = "token")
       => /\ authorization[1].token_header \in DOMAIN Reqs[1].sent.headers
          /\ Reqs[1].sent.headers[authorization[1].token_header]
                 = authorization[1].token

====
